---- MODULE Spec2Model ----
(***************************************************************************)
(* A model of src/main.py: the CompactSize codec (CompactSizeEncoder,      *)
(* CompactSizeDecoder) and the UTXO registry (UTXOSet).                    *)
(*                                                                         *)
(* Python integers are unbounded.  TLC's integers are 32 bits wide, so a   *)
(* Python int is modelled as a sign and a magnitude of five 16-bit limbs,  *)
(* least significant first (80 bits: enough for every 64-bit value, for    *)
(* values just above 2^64, and for sums of a few 64-bit amounts).          *)
(***************************************************************************)
EXTENDS Integers, Sequences, FiniteSets

VARIABLES
    pc,        \* codec: which call the caller has made last
    value,     \* codec: the argument of CompactSizeEncoder.encode
    encoded,   \* codec: the outcome of encode(value)
    data,      \* codec: the argument of CompactSizeDecoder.decode
    decoded,   \* codec: the outcome of decode(data)
    utxos,     \* registry: per UTXOSet object, the set object its attribute utxos refers to
    heap,      \* registry: per set object, the tuples it holds
    ret        \* registry: the value returned by the last method call

vars == <<pc, value, encoded, data, decoded, utxos, heap, ret>>

codecVars == <<pc, value, encoded, data, decoded>>

registryVars == <<utxos, heap, ret>>

(***************************************************************************)
(* Python values and outcomes                                              *)
(***************************************************************************)

\* The outcome of a call: a returned value, or a raised exception.
Return(v) == [exc |-> "none", val |-> v]

NoValue == <<>>

Raise(e) == [exc |-> e, val |-> NoValue]

NotCalled == [exc |-> "not called", val |-> NoValue]

\* What a registry method returns: None, a bool, or a UTXOSet object.
PyNone == [kind |-> "None", id |-> 0]

PyBool(b) == [kind |-> "bool", id |-> IF b THEN 1 ELSE 0]

PyRef(r) == [kind |-> "UTXOSet", id |-> r]

LimbBase == 256 * 256

LimbIdx == 1..5

ZeroMag == <<0, 0, 0, 0, 0>>

\* A Python object: an int, a bool (a subclass of int), or a float or str.
PyInt(neg, mag) == [kind |-> "int", neg |-> neg, mag |-> mag]

IntOfSmall(n) == PyInt(FALSE, <<n, 0, 0, 0, 0>>)

\* |a| < |b|, comparing from the most significant limb down.
MagLess(a, b) ==
    \E i \in LimbIdx : a[i] < b[i] /\ \A j \in (i + 1)..5 : a[j] = b[j]

\* Python's x < y on ints (and bools).
IntLess(x, y) ==
    IF x.neg /\ ~y.neg THEN TRUE
    ELSE IF ~x.neg /\ y.neg THEN FALSE
    ELSE IF x.neg THEN MagLess(y.mag, x.mag)
    ELSE MagLess(x.mag, y.mag)

\* Python's x <= y on ints (and bools).
IntLeq(x, y) == ~IntLess(y, x)

\* isinstance(value, int): true of int and of its subclass bool.
isinstance_int(v) == v.kind \in {"int", "bool"}

(***************************************************************************)
(* CompactSizeEncoder                                                      *)
(***************************************************************************)

xFD == 253

xFE == 254

xFF == 255

xFFFF == PyInt(FALSE, <<65535, 0, 0, 0, 0>>)

xFFFFFFFF == PyInt(FALSE, <<65535, 65535, 0, 0, 0>>)

xFFFFFFFFFFFFFFFF == PyInt(FALSE, <<65535, 65535, 65535, 65535, 0>>)

\* Byte k (k = 0 is the least significant) of a magnitude.
ByteAt(mag, k) ==
    (mag[(k \div 2) + 1] \div (IF k % 2 = 0 THEN 1 ELSE 256)) % 256

\* int.to_bytes(length, byteorder='big'): the byte order a slip would give.
to_bytes_big(v, length) ==
    IF v.neg \/ \E k \in length..9 : ByteAt(v.mag, k) # 0
    THEN Raise("OverflowError")
    ELSE Return([i \in 1..length |-> ByteAt(v.mag, length - i)])

\* int.to_bytes(length, byteorder='little'): OverflowError when the value
\* is negative or does not fit in length bytes.
to_bytes(v, length) ==
    IF v.neg \/ \E k \in length..9 : ByteAt(v.mag, k) # 0
    THEN Raise("OverflowError")
    ELSE Return([i \in 1..length |-> ByteAt(v.mag, i - 1)])

\* bytes([value]): ValueError unless 0 <= value < 256.
bytes_of(v) ==
    IF v.neg \/ \E k \in 1..9 : ByteAt(v.mag, k) # 0
    THEN Raise("ValueError")
    ELSE Return(<<ByteAt(v.mag, 0)>>)

\* prefix + value.to_bytes(...): an exception of to_bytes propagates.
prefixed(tag, r) == IF r.exc = "none" THEN Return(<<tag>> \o r.val) ELSE r

\* encode with the first threshold off by one (value <= 0xFD).
encode_off_by_one(v) ==
    IF ~isinstance_int(v) THEN Raise("ValueError")
    ELSE IF ~(IntLeq(IntOfSmall(0), v) /\ IntLeq(v, xFFFFFFFFFFFFFFFF))
    THEN Raise("ValueError")
    ELSE IF IntLeq(v, IntOfSmall(xFD)) THEN bytes_of(v)
    ELSE IF IntLeq(v, xFFFF) THEN prefixed(xFD, to_bytes(v, 2))
    ELSE IF IntLeq(v, xFFFFFFFF) THEN prefixed(xFE, to_bytes(v, 4))
    ELSE prefixed(xFF, to_bytes(v, 8))

\* encode without the upper half of the range check.
encode_no_upper_check(v) ==
    IF ~isinstance_int(v) THEN Raise("ValueError")
    ELSE IF ~IntLeq(IntOfSmall(0), v) THEN Raise("ValueError")
    ELSE IF IntLess(v, IntOfSmall(xFD)) THEN bytes_of(v)
    ELSE IF IntLeq(v, xFFFF) THEN prefixed(xFD, to_bytes(v, 2))
    ELSE IF IntLeq(v, xFFFFFFFF) THEN prefixed(xFE, to_bytes(v, 4))
    ELSE prefixed(xFF, to_bytes(v, 8))

\* CompactSizeEncoder.encode
encode(v) ==
    IF ~isinstance_int(v) THEN Raise("ValueError")
    ELSE IF ~(IntLeq(IntOfSmall(0), v) /\ IntLeq(v, xFFFFFFFFFFFFFFFF))
    THEN Raise("ValueError")
    ELSE IF IntLess(v, IntOfSmall(xFD)) THEN bytes_of(v)
    ELSE IF IntLeq(v, xFFFF) THEN prefixed(xFD, to_bytes(v, 2))
    ELSE IF IntLeq(v, xFFFFFFFF) THEN prefixed(xFE, to_bytes(v, 4))
    ELSE prefixed(xFF, to_bytes(v, 8))

(***************************************************************************)
(* CompactSizeDecoder                                                      *)
(***************************************************************************)

Min(a, b) == IF a < b THEN a ELSE b

\* Python's s[lo:hi] on bytes (0-based, hi exclusive, clamped to len(s)).
Slice(s, lo, hi) == SubSeq(s, lo + 1, Min(hi, Len(s)))

ByteOr0(bs, i) == IF i <= Len(bs) THEN bs[i] ELSE 0

\* int.from_bytes(bs, byteorder='little') for up to 10 bytes.
from_bytes(bs) ==
    PyInt(FALSE,
          [i \in LimbIdx |-> ByteOr0(bs, 2 * i - 1) + 256 * ByteOr0(bs, 2 * i)])

Decoded(v, n) == Return([value |-> v, consumed |-> n])

\* decode whose length checks are one byte too lenient.
decode_short_check(d) ==
    IF Len(d) = 0 THEN Raise("ValueError")
    ELSE LET first_byte == d[1] IN
         IF first_byte < xFD THEN Decoded(IntOfSmall(first_byte), 1)
         ELSE IF first_byte = xFD
         THEN IF Len(d) < 2 THEN Raise("ValueError")
              ELSE Decoded(from_bytes(Slice(d, 1, 3)), 3)
         ELSE IF first_byte = xFE
         THEN IF Len(d) < 4 THEN Raise("ValueError")
              ELSE Decoded(from_bytes(Slice(d, 1, 5)), 5)
         ELSE IF first_byte = xFF
         THEN IF Len(d) < 8 THEN Raise("ValueError")
              ELSE Decoded(from_bytes(Slice(d, 1, 9)), 9)
         ELSE Raise("ValueError")

\* decode that reads the payload to the end of the input (data[1:]).
decode_open_slice(d) ==
    IF Len(d) = 0 THEN Raise("ValueError")
    ELSE LET first_byte == d[1] IN
         IF first_byte < xFD THEN Decoded(IntOfSmall(first_byte), 1)
         ELSE IF first_byte = xFD
         THEN IF Len(d) < 3 THEN Raise("ValueError")
              ELSE Decoded(from_bytes(Slice(d, 1, Len(d))), 3)
         ELSE IF first_byte = xFE
         THEN IF Len(d) < 5 THEN Raise("ValueError")
              ELSE Decoded(from_bytes(Slice(d, 1, Len(d))), 5)
         ELSE IF first_byte = xFF
         THEN IF Len(d) < 9 THEN Raise("ValueError")
              ELSE Decoded(from_bytes(Slice(d, 1, Len(d))), 9)
         ELSE Raise("ValueError")

\* CompactSizeDecoder.decode
decode(d) ==
    IF Len(d) = 0 THEN Raise("ValueError")
    ELSE LET first_byte == d[1] IN
         IF first_byte < xFD THEN Decoded(IntOfSmall(first_byte), 1)
         ELSE IF first_byte = xFD
         THEN IF Len(d) < 3 THEN Raise("ValueError")
              ELSE Decoded(from_bytes(Slice(d, 1, 3)), 3)
         ELSE IF first_byte = xFE
         THEN IF Len(d) < 5 THEN Raise("ValueError")
              ELSE Decoded(from_bytes(Slice(d, 1, 5)), 5)
         ELSE IF first_byte = xFF
         THEN IF Len(d) < 9 THEN Raise("ValueError")
              ELSE Decoded(from_bytes(Slice(d, 1, 9)), 9)
         ELSE Raise("ValueError")

(***************************************************************************)
(* The codec's callers: the inputs tried and the calls made                *)
(***************************************************************************)

\* The longest decoder input tried.
MaxDataLen == 10

LowLimbSamples == {0, 1, 252, 253, 255, 256, 65535}

HighLimbSamples == {0, 1, 256, 65535}

MagSamples ==
    {<<a, b, c, d, e>> : a \in LowLimbSamples, b \in HighLimbSamples,
                         c \in HighLimbSamples, d \in HighLimbSamples,
                         e \in {0, 1}}

IntSamples ==
    {PyInt(n, m) : n \in BOOLEAN, m \in MagSamples} \ {PyInt(TRUE, ZeroMag)}

\* True and False, and a float and a str that is no instance of int.
OtherSamples ==
    {[kind |-> "bool", neg |-> FALSE, mag |-> <<b, 0, 0, 0, 0>>] : b \in {0, 1}}
    \cup {[kind |-> k, neg |-> FALSE, mag |-> <<253, 0, 0, 0, 0>>] :
            k \in {"float", "str"}}

EncodeInputs == IntSamples \cup OtherSamples

TagSamples == {0, 5, 252, 253, 254, 255}

\* The bytes tried at position i (1-based) of a decoder input.
ByteSamples(i) ==
    IF i = 1 THEN TagSamples
    ELSE IF i <= 3 THEN {0, 1, 5, 255}
    ELSE {0, 255}

NoInput == IntOfSmall(0)

CodecIdle ==
    /\ pc = "idle" /\ value = NoInput /\ encoded = NotCalled
    /\ data = <<>> /\ decoded = NotCalled

RegistryInit ==
    /\ utxos = <<1, 2>>
    /\ heap = <<{}, {}>>
    /\ ret = PyNone

\* The caller holds a value to encode, or an empty receive buffer.
CodecInit ==
    /\ encoded = NotCalled
    /\ decoded = NotCalled
    /\ data = <<>>
    /\ \/ pc = "have value" /\ value \in EncodeInputs
       \/ pc = "receiving" /\ value = NoInput
    /\ RegistryInit

\* encoder.encode(value)
Encode ==
    /\ pc = "have value"
    /\ encoded' = encode(value)
    /\ pc' = "encoded"
    /\ UNCHANGED <<value, data, decoded, registryVars>>

\* decoder.decode(encoder.encode(value))
DecodeEncoded ==
    /\ pc = "encoded"
    /\ encoded.exc = "none"
    /\ data' = encoded.val
    /\ decoded' = decode(data')
    /\ pc' = "round trip"
    /\ UNCHANGED <<value, encoded, registryVars>>

\* One more byte arrives in the caller's buffer; the caller calls
\* decoder.decode(data) on the buffer.
Receive ==
    /\ pc \in {"receiving", "decoded"}
    /\ Len(data) < MaxDataLen
    /\ \E b \in ByteSamples(Len(data) + 1) :
          data' = Append(data, b)
    /\ decoded' = decode(data')
    /\ pc' = "decoded"
    /\ UNCHANGED <<value, encoded, registryVars>>

\* The caller decodes the empty buffer.
DecodeEmpty ==
    /\ pc = "receiving"
    /\ decoded' = decode(data)
    /\ pc' = "decoded"
    /\ UNCHANGED <<value, encoded, data, registryVars>>

\* A byte of the buffer is overwritten; the caller calls decode again.
Overwrite ==
    /\ pc = "decoded"
    /\ \E i \in 1..Len(data) : \E b \in ByteSamples(i) :
          data' = [data EXCEPT ![i] = b]
    /\ decoded' = decode(data')
    /\ pc' = "decoded"
    /\ UNCHANGED <<value, encoded, registryVars>>

CodecNext == Encode \/ DecodeEncoded \/ Receive \/ DecodeEmpty \/ Overwrite

CodecSpec == CodecInit /\ [][CodecNext]_vars

(***************************************************************************)
(* UTXOSet                                                                 *)
(***************************************************************************)

\* A UTXO is the tuple (tx_id, vout_index, amount).
amount_of(u) == u[3]

\* The UTXOSet objects that exist.
Registries == 1..Len(utxos)

\* The tuples in the set object that registry r's attribute utxos refers to.
Held(r) == heap[utxos[r]]

\* The limbs of a + b, added limb by limb with carry.
AddMag(a, b) ==
    LET s1 == a[1] + b[1]
        s2 == a[2] + b[2] + (s1 \div LimbBase)
        s3 == a[3] + b[3] + (s2 \div LimbBase)
        s4 == a[4] + b[4] + (s3 \div LimbBase)
        s5 == a[5] + b[5] + (s4 \div LimbBase)
    IN  <<s1 % LimbBase, s2 % LimbBase, s3 % LimbBase, s4 % LimbBase,
          s5 % LimbBase>>

\* x + y with a 64-bit accumulator: the carry out of bit 63 is lost.
IntAdd_wrap64(x, y) ==
    CHOOSE z \in {PyInt(FALSE, [AddMag(a, b) EXCEPT ![5] = 0]) :
                     a \in {x.mag}, b \in {y.mag}} : TRUE

\* Python's x + y on non-negative ints: exact.  (The operands are bound
\* once, as values.)
IntAdd(x, y) ==
    CHOOSE z \in {PyInt(FALSE, AddMag(a, b)) :
                     a \in {x.mag}, b \in {y.mag}} : TRUE

RECURSIVE sum_amounts(_)
\* sum(amount for _, _, amount in s): from 0, one + per element.
sum_amounts(s) ==
    IF s = {} THEN IntOfSmall(0)
    ELSE LET u == CHOOSE x \in s : TRUE
         IN  IntAdd(sum_amounts(s \ {u}), amount_of(u))

\* UTXOSet.get_balance
get_balance(r) == sum_amounts(Held(r))

\* UTXOSet.get_total_utxo_count
get_total_utxo_count(r) == Cardinality(Held(r))

RECURSIVE sorted_desc(_)
\* sorted(s, key=lambda x: x[2], reverse=True): ties in the set's order.
sorted_desc(s) ==
    IF s = {} THEN <<>>
    ELSE LET u == CHOOSE x \in s :
                     \A y \in s : IntLeq(amount_of(y), amount_of(x))
         IN  <<u>> \o sorted_desc(s \ {u})

RECURSIVE accumulate(_, _)
\* The state of the for loop after its first n iterations.
accumulate(seq, n) ==
    IF n = 0 THEN [sufficient_utxos |-> {}, current_sum |-> IntOfSmall(0)]
    ELSE LET before == accumulate(seq, n - 1)
         IN  [sufficient_utxos |-> before.sufficient_utxos \cup {seq[n]},
              current_sum |-> IntAdd(before.current_sum, amount_of(seq[n]))]

RECURSIVE accumulate_until(_, _, _)
\* The for loop with a break once current_sum >= target_amount.
accumulate_until(seq, n, target_amount) ==
    IF n = 0 THEN [sufficient_utxos |-> {}, current_sum |-> IntOfSmall(0)]
    ELSE LET before == accumulate_until(seq, n - 1, target_amount)
         IN  IF IntLeq(target_amount, before.current_sum) THEN before
             ELSE [sufficient_utxos |-> before.sufficient_utxos \cup {seq[n]},
                   current_sum |->
                       IntAdd(before.current_sum, amount_of(seq[n]))]

\* find_sufficient_utxos as an early-stopping greedy selection.
find_sufficient_utxos_early_stop(r, target_amount) ==
    LET sorted_utxos == sorted_desc(Held(r))
        after == accumulate_until(sorted_utxos, Len(sorted_utxos),
                                  target_amount)
    IN  IF IntLeq(target_amount, after.current_sum)
        THEN after.sufficient_utxos
        ELSE {}

\* UTXOSet.find_sufficient_utxos
find_sufficient_utxos(r, target_amount) ==
    LET sorted_utxos == sorted_desc(Held(r))
        after == accumulate(sorted_utxos, Len(sorted_utxos))
    IN  IF IntLeq(target_amount, after.current_sum)
        THEN after.sufficient_utxos
        ELSE {}

\* is_subset_of as a proper-subset test (set < set instead of issubset).
is_subset_of_proper(r, other_utxo_set) ==
    Held(r) \subseteq Held(other_utxo_set) /\ Held(r) # Held(other_utxo_set)

\* UTXOSet.is_subset_of
is_subset_of(r, other_utxo_set) == Held(r) \subseteq Held(other_utxo_set)

\* add_utxo keyed on (tx_id, vout_index): an entry for the same output is
\* replaced.
add_utxo_by_outpoint(r, u) ==
    /\ heap' = [heap EXCEPT ![utxos[r]] =
                   {x \in @ : ~(x[1] = u[1] /\ x[2] = u[2])} \cup {u}]
    /\ ret' = PyNone
    /\ UNCHANGED <<utxos, codecVars>>

\* UTXOSet.add_utxo
add_utxo(r, u) ==
    /\ heap' = [heap EXCEPT ![utxos[r]] = @ \cup {u}]
    /\ ret' = PyNone
    /\ UNCHANGED <<utxos, codecVars>>

\* remove_utxo matching on (tx_id, vout_index) alone.
remove_utxo_by_outpoint(r, u) ==
    LET hit == {x \in Held(r) : x[1] = u[1] /\ x[2] = u[2]}
    IN  /\ heap' = [heap EXCEPT ![utxos[r]] = @ \ hit]
        /\ ret' = PyBool(hit # {})
        /\ UNCHANGED <<utxos, codecVars>>

\* UTXOSet.remove_utxo
remove_utxo(r, u) ==
    /\ IF u \in Held(r)
       THEN /\ heap' = [heap EXCEPT ![utxos[r]] = @ \ {u}]
            /\ ret' = PyBool(TRUE)
       ELSE /\ heap' = heap
            /\ ret' = PyBool(FALSE)
    /\ UNCHANGED <<utxos, codecVars>>

\* The most UTXOSet objects created.
MaxRegistries == 3

\* combine_utxos that shares self's set object and updates it in place.
combine_utxos_in_place(r, other_utxo_set) ==
    /\ Len(utxos) < MaxRegistries
    /\ heap' = [heap EXCEPT ![utxos[r]] = @ \cup Held(other_utxo_set)]
    /\ utxos' = Append(utxos, utxos[r])
    /\ ret' = PyRef(Len(utxos) + 1)
    /\ UNCHANGED codecVars

\* UTXOSet.combine_utxos: set.union builds a new set object, which the new
\* UTXOSet's attribute utxos is bound to.
combine_utxos(r, other_utxo_set) ==
    /\ Len(utxos) < MaxRegistries
    /\ heap' = Append(heap, Held(r) \cup Held(other_utxo_set))
    /\ utxos' = Append(utxos, Len(heap) + 1)
    /\ ret' = PyRef(Len(utxos) + 1)
    /\ UNCHANGED codecVars

\* UTXOSet.find_common_utxos: set.intersection builds a new set object.
find_common_utxos(r, other_utxo_set) ==
    /\ Len(utxos) < MaxRegistries
    /\ heap' = Append(heap, Held(r) \cap Held(other_utxo_set))
    /\ utxos' = Append(utxos, Len(heap) + 1)
    /\ ret' = PyRef(Len(utxos) + 1)
    /\ UNCHANGED codecVars

(***************************************************************************)
(* The registry's callers                                                  *)
(***************************************************************************)

U64Max == PyInt(FALSE, <<65535, 65535, 65535, 65535, 0>>)

\* The UTXOs tried: two that differ only in amount, and amounts whose sum
\* needs more than 64 bits.
UTXOSamples ==
    {<<"a", 0, IntOfSmall(500)>>, <<"b", 1, IntOfSmall(1500)>>,
     <<"a", 0, U64Max>>}

\* The target amounts tried: -1, and sums of the samples and their
\* neighbours.
TargetSamples ==
    {PyInt(TRUE, <<1, 0, 0, 0, 0>>), U64Max}
    \cup {PyInt(FALSE, <<n, 0, 0, 0, e>>) :
            n \in {0, 499, 500, 501, 1500, 1501, 1999, 2000, 2001},
            e \in {0, 1}}

\* Two registries as UTXOSet() leaves them; the codec is not in use.
Init == RegistryInit /\ CodecIdle

Add == \E r \in Registries : \E u \in UTXOSamples : add_utxo(r, u)

Remove == \E r \in Registries : \E u \in UTXOSamples : remove_utxo(r, u)

Union == \E r \in Registries : \E o \in Registries : combine_utxos(r, o)

Intersection ==
    \E r \in Registries : \E o \in Registries : find_common_utxos(r, o)

Next == Add \/ Remove \/ Union \/ Intersection

Spec == Init /\ [][Next]_vars

(***************************************************************************)
(* Properties of the codec, checked under CodecSpec                        *)
(***************************************************************************)

\* v is an int (or bool) with 0 <= v <= 2^64 - 1: no sign, nothing above
\* bit 63.
InU64(v) == v.kind \in {"int", "bool"} /\ ~v.neg /\ v.mag[5] = 0

HasEncoded == pc \in {"encoded", "round trip"}

HasDecoded == pc \in {"decoded", "round trip"}

\* The 16-bit little-endian number held in bytes i and i + 1 of b.
LE16(b, i) == b[i] + 256 * b[i + 1]

\* C1: for every integer v in [0, 2^64-1], encode(v) succeeds and
\* decode(encode(v)) returns exactly (v, len(encode(v))).
C1_RoundTrip ==
    /\ (pc = "encoded" /\ value.kind = "int" /\ InU64(value))
          => encoded.exc = "none"
    /\ (pc = "round trip" /\ value.kind = "int")
          => /\ decoded.exc = "none"
             /\ decoded.val.value = value
             /\ decoded.val.consumed = Len(encoded.val)

\* The largest value, 2^64 - 1, has made the round trip through 9 bytes.
C1_Witness ==
    /\ pc = "round trip"
    /\ value = PyInt(FALSE, <<65535, 65535, 65535, 65535, 0>>)
    /\ Len(data) = 9
    /\ decoded.val.consumed = 9

\* C2: encode(v) is the minimal little-endian layout: one byte equal to v
\* for 0..252; 0xFD and 2 bytes for 253..65535; 0xFE and 4 bytes for
\* 65536..4294967295; 0xFF and 8 bytes above; so its length is 1, 3, 5 or
\* 9; encode(252) = [252], encode(253) = [0xFD, 253, 0] and
\* encode(65536) = [0xFE, 0, 0, 1, 0].
C2_MinimalLayout ==
    (HasEncoded /\ value.kind = "int" /\ InU64(value)) =>
        LET m == value.mag
            b == encoded.val
        IN  /\ encoded.exc = "none"
            /\ \A i \in 1..Len(b) : b[i] \in 0..255
            /\ IF m[1] < 253 /\ m[2] = 0 /\ m[3] = 0 /\ m[4] = 0
               THEN b = <<m[1]>>
               ELSE IF m[2] = 0 /\ m[3] = 0 /\ m[4] = 0
               THEN Len(b) = 3 /\ b[1] = 253 /\ LE16(b, 2) = m[1]
               ELSE IF m[3] = 0 /\ m[4] = 0
               THEN /\ Len(b) = 5 /\ b[1] = 254
                    /\ LE16(b, 2) = m[1] /\ LE16(b, 4) = m[2]
               ELSE /\ Len(b) = 9 /\ b[1] = 255
                    /\ LE16(b, 2) = m[1] /\ LE16(b, 4) = m[2]
                    /\ LE16(b, 6) = m[3] /\ LE16(b, 8) = m[4]
            /\ m = <<252, 0, 0, 0, 0>> => b = <<252>>
            /\ m = <<253, 0, 0, 0, 0>> => b = <<253, 253, 0>>
            /\ m = <<0, 1, 0, 0, 0>> => b = <<254, 0, 0, 1, 0>>

\* 65536, the smallest value of the 0xFE form, has been encoded.
C2_Witness ==
    /\ pc = "encoded"
    /\ value = PyInt(FALSE, <<0, 1, 0, 0, 0>>)
    /\ encoded = Return(<<254, 0, 0, 1, 0>>)

\* C3: encode fails with ValueError (InvalidValue), returning no bytes, for
\* every input outside [0, 2^64-1] and every input that is no instance of
\* int; it succeeds for every integer inside the range.
C3_EncodeRange ==
    HasEncoded =>
        IF InU64(value)
        THEN encoded.exc = "none" /\ Len(encoded.val) \in {1, 3, 5, 9}
        ELSE encoded = Raise("ValueError")

\* encode(2^64) has failed.
C3_Witness ==
    /\ pc = "encoded"
    /\ value = PyInt(FALSE, <<0, 0, 0, 0, 1>>)
    /\ encoded = Raise("ValueError")

\* The input is empty or shorter than its tag byte declares.
TooShortInput(d) ==
    \/ Len(d) = 0
    \/ d[1] = 253 /\ Len(d) < 3
    \/ d[1] = 254 /\ Len(d) < 5
    \/ d[1] = 255 /\ Len(d) < 9

\* C4: decode fails with ValueError (TooShort) exactly when the input is
\* empty or the tag is 0xFD, 0xFE or 0xFF with fewer than 3, 5 or 9 bytes
\* present; a failure returns no (value, consumed); every other input
\* decodes.
C4_TooShort ==
    HasDecoded =>
        IF TooShortInput(data)
        THEN decoded = Raise("ValueError")
        ELSE decoded.exc = "none"

\* decode([0xFD, 0x01]) has failed.
C4_Witness ==
    /\ pc = "decoded"
    /\ data = <<253, 1>>
    /\ decoded = Raise("ValueError")

\* What decode returns depends on the tag and the declared payload alone.
C5_Result ==
    (HasDecoded /\ decoded.exc = "none") =>
        LET n == decoded.val.consumed
            v == decoded.val.value
        IN  /\ n <= Len(data)
            /\ v.kind = "int" /\ ~v.neg
            /\ IF data[1] < 253
               THEN n = 1 /\ v.mag = <<data[1], 0, 0, 0, 0>>
               ELSE IF data[1] = 253
               THEN n = 3 /\ v.mag = <<LE16(data, 2), 0, 0, 0, 0>>
               ELSE IF data[1] = 254
               THEN n = 5 /\ v.mag = <<LE16(data, 2), LE16(data, 4), 0, 0, 0>>
               ELSE /\ n = 9
                    /\ v.mag = <<LE16(data, 2), LE16(data, 4),
                                 LE16(data, 6), LE16(data, 8), 0>>
            /\ data = <<253, 5, 0>> => (n = 3 /\ v = IntOfSmall(5))

\* A step that keeps the consumed bytes keeps the result.
C5_Trailing ==
    ( /\ HasDecoded /\ decoded.exc = "none"
      /\ pc' = "decoded"
      /\ Len(data') >= decoded.val.consumed
      /\ \A i \in 1..decoded.val.consumed : data'[i] = data[i] )
        => decoded' = decoded

\* C5: on a long enough input decode returns (tag, 1), or the little-endian
\* 2-, 4- or 8-byte payload with 3, 5 or 9 consumed; consumed never exceeds
\* the input's length; bytes appended or changed at positions >= consumed
\* never change the result; decode([0xFD, 0x05, 0x00]) = (5, 3).
C5_DeclaredBytesOnly == []C5_Result /\ [][C5_Trailing]_vars

\* The non-canonical [0xFD, 5, 0] followed by a trailing byte decoded to
\* (5, 3).
C5_Witness ==
    /\ pc = "decoded"
    /\ data = <<253, 5, 0, 255>>
    /\ decoded = Decoded(IntOfSmall(5), 3)

(***************************************************************************)
(* Properties of the registry, checked under Spec                          *)
(***************************************************************************)

RECURSIVE ColumnSum(_, _)
\* The sum of limb i of the amounts of the tuples in s.
ColumnSum(s, i) ==
    IF s = {} THEN 0
    ELSE LET u == CHOOSE x \in s : TRUE
         IN  amount_of(u).mag[i] + ColumnSum(s \ {u}, i)

RECURSIVE ColumnCarry(_, _)
\* The carry into column i when the columns are added up.
ColumnCarry(s, i) ==
    IF i = 1 THEN 0
    ELSE (ColumnSum(s, i - 1) + ColumnCarry(s, i - 1)) \div 65536

\* The exact sum of the amounts of the tuples in s, added column by column.
ExactSum(s) ==
    PyInt(FALSE,
          [i \in LimbIdx |-> (ColumnSum(s, i) + ColumnCarry(s, i)) % 65536])

A500 == <<"a", 0, IntOfSmall(500)>>

B1500 == <<"b", 1, IntOfSmall(1500)>>

AMax == <<"a", 0, PyInt(FALSE, <<65535, 65535, 65535, 65535, 0>>)>>

\* The tuples registry x holds after the step.
HeldAfter(x) == heap'[utxos'[x]]

\* C6: selection is all-or-nothing in every reachable registry state: the
\* empty set when the sum of all held amounts is less than the target, the
\* complete held set when that sum is >= the target, never a non-empty
\* proper subset.
C6_AllOrNothing ==
    \A r \in Registries : \A t \in TargetSamples :
        LET selected == find_sufficient_utxos(r, t)
            total == ExactSum(Held(r))
        IN  /\ IntLess(total, t) => selected = {}
            /\ ~IntLess(total, t) => selected = Held(r)
            /\ selected = {} \/ selected = Held(r)

\* A registry holds all three samples, whose largest amount alone covers the
\* target 500, and selection returns all three.
C6_Witness ==
    \E r \in Registries :
        /\ Held(r) = {A500, B1500, AMax}
        /\ find_sufficient_utxos(r, IntOfSmall(500)) = {A500, B1500, AMax}
        /\ find_sufficient_utxos(r, PyInt(FALSE, <<2000, 0, 0, 0, 1>>)) = {}

\* C7: get_balance() is the exact sum, without wraparound, of the amounts of
\* the distinct tuples held and get_total_utxo_count() is their number; both
\* are 0 for an empty registry; holding ("a",0,500) and ("b",1,1500) gives
\* 2000.
C7_BalanceAndCount ==
    \A r \in Registries :
        /\ get_balance(r) = ExactSum(Held(r))
        /\ get_total_utxo_count(r)
              = Cardinality({u \in UTXOSamples : u \in Held(r)})
        /\ Held(r) = {} =>
              get_balance(r) = IntOfSmall(0) /\ get_total_utxo_count(r) = 0
        /\ Held(r) = {A500, B1500} =>
              get_balance(r) = IntOfSmall(2000) /\ get_total_utxo_count(r) = 2

\* A registry built by add holds all three samples: its balance,
\* 2^64 + 1999, needs 65 bits.
C7_Witness ==
    /\ Held(1) = {A500, B1500, AMax}
    /\ get_balance(1) = PyInt(FALSE, <<1999, 0, 0, 0, 1>>)
    /\ get_total_utxo_count(1) = 3

\* C8: adding a tuple already held leaves the registry, its count and its
\* balance unchanged and raises nothing; adding a tuple that differs from
\* every held one, be it only in amount, adds one to the count, and the new
\* tuple and the old ones are then all held.
C8_AddIdempotent ==
    [][\A r \in Registries : \A u \in UTXOSamples :
          add_utxo(r, u) =>
             /\ ret' = PyNone
             /\ IF u \in Held(r)
                THEN /\ HeldAfter(r) = Held(r)
                     /\ get_total_utxo_count(r)' = get_total_utxo_count(r)
                     /\ get_balance(r)' = get_balance(r)
                ELSE /\ get_total_utxo_count(r)' = get_total_utxo_count(r) + 1
                     /\ u \in HeldAfter(r)
                     /\ \A x \in Held(r) : x \in HeldAfter(r)]_vars

\* After an add, a registry holds two tuples that differ only in amount.
C8_Witness ==
    /\ ret = PyNone
    /\ \E r \in Registries : A500 \in Held(r) /\ AMax \in Held(r)

\* C9: remove_utxo returns True exactly when the tuple was held before the
\* call; then that tuple alone is deleted; when it returns False nothing
\* changes.
C9_Remove ==
    [][\A r \in Registries : \A u \in UTXOSamples :
          remove_utxo(r, u) =>
             /\ ret' = PyBool(u \in Held(r))
             /\ utxos' = utxos
             /\ \A x \in Registries \ {r} : HeldAfter(x) = Held(x)
             /\ IF u \in Held(r)
                THEN HeldAfter(r) = Held(r) \ {u}
                ELSE heap' = heap]_vars

\* A remove returned True and left the two other tuples in registry 1.
C9_Witness ==
    /\ ret = PyBool(TRUE)
    /\ Held(1) = {A500, B1500}
    /\ Held(2) = {}

\* No two registries share a set object.
C10_OwnCollection ==
    \A x \in Registries : \A y \in Registries :
        x # y => utxos[x] # utxos[y]

\* What a step that builds a new registry holding s from r and o must do.
C10_Builds(s) ==
    /\ Len(utxos') = Len(utxos) + 1
    /\ ret' = PyRef(Len(utxos) + 1)
    /\ heap'[utxos'[Len(utxos) + 1]] = s
    /\ \A x \in Registries :
          /\ utxos'[x] = utxos[x]
          /\ HeldAfter(x) = Held(x)
          /\ utxos'[Len(utxos) + 1] # utxos'[x]

C10_Step ==
    \A r \in Registries :
        /\ \A o \in Registries :
              /\ combine_utxos(r, o) => C10_Builds(Held(r) \cup Held(o))
              /\ find_common_utxos(r, o) => C10_Builds(Held(r) \cap Held(o))
        /\ \A u \in UTXOSamples :
              (add_utxo(r, u) \/ remove_utxo(r, u)) =>
                 \A x \in Registries \ {r} : HeldAfter(x) = Held(x)

\* C10: combine_utxos and find_common_utxos leave both inputs as they were
\* and return a new registry with a set object of its own holding exactly
\* the union / intersection; a later add or remove on the result changes no
\* input and one on an input does not change the result, also when the other
\* argument is the same registry or an empty one.
C10_NewRegistry == []C10_OwnCollection /\ [][C10_Step]_vars

\* Registry 3 was built from registry 1 and the empty registry 2 and has
\* since been added to; registry 1 still holds what it held.
C10_Witness ==
    /\ Len(utxos) = 3
    /\ Held(1) = {A500}
    /\ Held(2) = {}
    /\ Held(3) = {A500, B1500}
    /\ ret = PyNone

\* is_subset_of(r, o) is true exactly when every tuple r holds is held by o.
C11_SubsetIff ==
    \A r \in Registries : \A o \in Registries :
        /\ is_subset_of(r, o) <=>
              \A u \in UTXOSamples : u \in Held(r) => u \in Held(o)
        /\ Held(r) = {} => is_subset_of(r, o)

Max(a, b) == IF a > b THEN a ELSE b

\* What a step that builds registry n by union or intersection of r and o
\* leaves behind.
C11_Step ==
    \A r \in Registries : \A o \in Registries :
        \A n \in {Len(utxos) + 1} :
            /\ combine_utxos(r, o) =>
                  get_total_utxo_count(n)'
                      >= Max(get_total_utxo_count(r), get_total_utxo_count(o))
            /\ find_common_utxos(r, o) =>
                  is_subset_of(n, r)' /\ is_subset_of(n, o)'

\* C11: for registries A and B, A.combine_utxos(B) counts at least
\* max(count(A), count(B)); A.find_common_utxos(B) is a subset of A and of
\* B; is_subset_of(other) is true if and only if every tuple the receiver
\* holds is held by other, so an empty registry is a subset of every one.
C11_SetAlgebra == []C11_SubsetIff /\ [][C11_Step]_vars

\* Registry 3 has just been built as the intersection of registries 1 and
\* 2, which overlap in one tuple and are no subsets of each other.
C11_Witness ==
    /\ Len(utxos) = 3
    /\ ret = PyRef(3)
    /\ Held(1) = {A500, B1500}
    /\ Held(2) = {B1500, AMax}
    /\ Held(3) = {B1500}
    /\ is_subset_of(3, 1) /\ is_subset_of(3, 2)
    /\ ~is_subset_of(1, 2) /\ ~is_subset_of(2, 1)

====
